---- MODULE Spec2Model ----
(***************************************************************************)
(* Model of parse_outdated: OutdatedResult::try_from (src/src/lib.rs), the *)
(* line-oriented parser of the report printed by `cargo outdated`.         *)
(*                                                                         *)
(* A string is a sequence of one-character strings, so that trimming,      *)
(* whitespace splitting, substring search and byte slicing are computed    *)
(* the way the code computes them.  Only ASCII text is modelled: a byte    *)
(* offset and a character offset are the same number.                      *)
(***************************************************************************)
EXTENDS Naturals, Integers, Sequences, FiniteSets, TLC

(***************************************************************************)
(* Bounds of the model.                                                    *)
(***************************************************************************)
\* longest input made of arbitrary lines of LinePool
MaxLines == 3
\* most sections of a sectioned input
MaxSections == 2
\* longest run of blank lines between two sections, and after the last one
MaxBlank == 2
\* most rows after the underline of a one-section input with arbitrary rows
MaxRows == 2

(***************************************************************************)
(* Text primitives.                                                        *)
(***************************************************************************)
\* char::is_whitespace, on the characters the model uses
IsWhitespace(c) == c \in {" ", "\t"}

Spaces(n) == [i \in 1..n |-> " "]

\* a cell of a table line: the text w, padded with spaces to width n
Pad(w, n) == IF Len(w) >= n THEN w ELSE w \o Spaces(n - Len(w))

\* str::trim
Trim(s) ==
    LET keep == {i \in 1..Len(s) : ~IsWhitespace(s[i])}
    IN  IF keep = {} THEN <<>>
        ELSE LET lo == CHOOSE i \in keep : \A j \in keep : i <= j
                 hi == CHOOSE i \in keep : \A j \in keep : j <= i
             IN  SubSeq(s, lo, hi)

\* str::split_whitespace: the maximal runs of non-whitespace characters
SplitWhitespace(s) ==
    LET starts == {i \in 1..Len(s) :
                     /\ ~IsWhitespace(s[i])
                     /\ (i = 1 \/ IsWhitespace(s[i - 1]))}
        EndOf(i) == CHOOSE j \in i..Len(s) :
                     /\ \A k \in i..j : ~IsWhitespace(s[k])
                     /\ (j = Len(s) \/ IsWhitespace(s[j + 1]))
        RECURSIVE Collect(_)
        Collect(from) ==
            LET rest == {i \in starts : i >= from}
            IN  IF rest = {} THEN <<>>
                ELSE LET i == CHOOSE x \in rest : \A y \in rest : x <= y
                     IN  <<SubSeq(s, i, EndOf(i))>> \o Collect(EndOf(i) + 1)
    IN  Collect(1)

\* SplitLines as it would be if it split as str::lines does: no piece for an
\* empty input, none after a final newline
SplitLinesLikeLines(s) ==
    LET nl == {i \in 1..Len(s) : s[i] = "\n"}
        RECURSIVE Pieces(_)
        Pieces(from) ==
            LET rest == {i \in nl : i >= from}
            IN  IF from > Len(s) THEN <<>>
                ELSE IF rest = {} THEN <<SubSeq(s, from, Len(s))>>
                ELSE LET i == CHOOSE x \in rest : \A y \in rest : x <= y
                     IN  <<SubSeq(s, from, i - 1)>> \o Pieces(i + 1)
    IN  Pieces(1)

\* str::split("\n"): the pieces between newlines; never an empty sequence
SplitLines(s) ==
    LET nl == {i \in 1..Len(s) : s[i] = "\n"}
        RECURSIVE Pieces(_)
        Pieces(from) ==
            LET rest == {i \in nl : i >= from}
            IN  IF rest = {} THEN <<SubSeq(s, from, Len(s))>>
                ELSE LET i == CHOOSE x \in rest : \A y \in rest : x <= y
                     IN  <<SubSeq(s, from, i - 1)>> \o Pieces(i + 1)
    IN  Pieces(1)

\* MatchIndices as it would be if the offsets were counted from 1
MatchIndicesOneBased(s, pat) ==
    {i \in 1..(Len(s) - Len(pat) + 1) : SubSeq(s, i, i + Len(pat) - 1) = pat}

\* the 0-based byte offsets at which pat occurs in s (str::match_indices)
MatchIndices(s, pat) ==
    {i \in 0..(Len(s) - Len(pat)) : SubSeq(s, i + 1, i + Len(pat)) = pat}

\* Option<T>: None is the empty sequence, Some(v) the one-element sequence
None == <<>>
Some(v) == <<v>>
IsSome(o) == Len(o) = 1
Unwrap(o) == o[1]

\* &line[a..b] and &line[a..]: the slice, or a panic when out of range
SliceInRange(s, a, b) == a <= b /\ b <= Len(s)
Slice(s, a, b) == SubSeq(s, a + 1, b)
SliceFromInRange(s, a) == a <= Len(s)
SliceFrom(s, a) == SubSeq(s, a + 1, Len(s))

(***************************************************************************)
(* The literals of the code.                                               *)
(***************************************************************************)
Separator == [i \in 1..16 |-> "="]

LName == <<"N", "a", "m", "e">>
LProject == <<"P", "r", "o", "j", "e", "c", "t">>
LCompat == <<"C", "o", "m", "p", "a", "t">>
LLatest == <<"L", "a", "t", "e", "s", "t">>
LKind == <<"K", "i", "n", "d">>
LPlatform == <<"P", "l", "a", "t", "f", "o", "r", "m">>
Columns == <<LName, LProject, LCompat, LLatest, LKind, LPlatform>>

Dashes == <<"-", "-", "-">>
Removed == <<"R", "e", "m", "o", "v", "e", "d">>
KNormal == <<"N", "o", "r", "m", "a", "l">>
KDevelopment == <<"D", "e", "v", "e", "l", "o", "p", "m", "e", "n", "t">>
KBuild == <<"B", "u", "i", "l", "d">>

(***************************************************************************)
(* Values of the data model.                                               *)
(***************************************************************************)
\* LatestVersion::V(String) and LatestVersion::Removed
LatestV(v) == [tag |-> "V", v |-> v]
LatestRemoved == [tag |-> "Removed", v |-> <<>>]

\* OutdatedDepBuilder::default(): every field None
BuilderDefault ==
    [name |-> None, project_version |-> None, latest_compatible_version |-> None,
     latest_version |-> None, kind |-> None, platform |-> None]

\* Result<ParseState>: Ok(state) or Err(message)
OkState(st) == [tag |-> "Ok", v |-> st, text |-> <<>>]
ErrState(kind, text) == [tag |-> "Err", v |-> kind, text |-> text]

\* what try_from has handed back to its caller: nothing yet, Err(e), Ok(result),
\* or a panic that unwinds out of the call
NotReturned == [tag |-> "None", kind |-> "", text |-> <<>>, projects |-> <<>>]
RetErr(kind, text) == [tag |-> "Err", kind |-> kind, text |-> text, projects |-> <<>>]
RetOk(projects) == [tag |-> "Ok", kind |-> "", text |-> <<>>, projects |-> projects]
RetPanic(kind) == [tag |-> "Panic", kind |-> kind, text |-> <<>>, projects |-> <<>>]

\* the local variables of try_from before the first line
InitLocals ==
    [state |-> OkState("Start"), cur_deps |-> <<>>, workspace_deps |-> <<>>,
     cur_outdated_dep |-> BuilderDefault, workspace_name |-> None,
     column_indices |-> <<>>]

\* the outcome of one loop body: the locals after it, and what it returned
Continue(c) == [c |-> c, ret |-> NotReturned]
Return(c, r) == [c |-> c, ret |-> r]

(***************************************************************************)
(* The arms of `match state?`, one per ParseState.                         *)
(***************************************************************************)
\* StartArm as it would be if the column offsets were kept from section to section
StartArmKeepIndices(c, line) ==
    Continue([c EXCEPT
        !.workspace_deps =
            IF IsSome(c.workspace_name)
            THEN Append(@, <<Unwrap(c.workspace_name), c.cur_deps>>)
            ELSE @,
        !.workspace_name = Some(line),
        !.state = OkState("InWorkspaceBreak")])

\* StartArm as it would be if the pending workspace were dropped, not pushed
StartArmNoCommit(c, line) ==
    Continue([c EXCEPT
        !.column_indices = <<>>,
        !.workspace_name = Some(line),
        !.state = OkState("InWorkspaceBreak")])

StartArm(c, line) ==
    Continue([c EXCEPT
        !.workspace_deps =
            IF IsSome(c.workspace_name)
            THEN Append(@, <<Unwrap(c.workspace_name), c.cur_deps>>)
            ELSE @,
        !.column_indices = <<>>,
        !.workspace_name = Some(line),
        !.state = OkState("InWorkspaceBreak")])

InWorkspaceBreakArm(c, line) ==
    IF line # Separator
    THEN Continue([c EXCEPT !.state = ErrState("ExpectedLineBreak", line)])
    ELSE Continue([c EXCEPT !.state = OkState("InHeader")])

\* the offsets pushed for the labels columns[k..], or the label that was not found
RECURSIVE ResolveColumns(_, _, _, _)
ResolveColumns(line, columns, k, indices) ==
    IF k > Len(columns) THEN [indices |-> indices, missing |-> None]
    ELSE LET found == MatchIndices(line, columns[k])
         IN  IF found = {}
             THEN [indices |-> indices, missing |-> Some(columns[k])]
             ELSE LET first == CHOOSE i \in found : \A j \in found : i <= j
                  IN  ResolveColumns(line, columns, k + 1, Append(indices, first))

\* InHeaderArm as it would be if the rows were taken to start right after the header
InHeaderArmSkipBreak(c, line) ==
    LET parts == SplitWhitespace(line)
    IN  IF parts # Columns
        THEN Continue([c EXCEPT !.state = ErrState("ExpectedHeaderRow", line)])
        ELSE LET r == ResolveColumns(line, Columns, 1, c.column_indices)
             IN  IF IsSome(r.missing)
                 THEN Return([c EXCEPT !.column_indices = r.indices],
                             RetErr("ExpectedIndex", Unwrap(r.missing)))
                 ELSE Continue([c EXCEPT !.column_indices = r.indices,
                                         !.state = OkState("InRow")])

InHeaderArm(c, line) ==
    LET parts == SplitWhitespace(line)
    IN  IF parts # Columns
        THEN Continue([c EXCEPT !.state = ErrState("ExpectedHeaderRow", line)])
        ELSE LET r == ResolveColumns(line, Columns, 1, c.column_indices)
             IN  IF IsSome(r.missing)
                 THEN Return([c EXCEPT !.column_indices = r.indices],
                             RetErr("ExpectedIndex", Unwrap(r.missing)))
                 ELSE Continue([c EXCEPT !.column_indices = r.indices,
                                         !.state = OkState("InHeaderBreak")])

\* InHeaderBreakArm as it would be if a blank line in place of the underline
\* ended the section
InHeaderBreakArmBlankEnds(c, line) ==
    IF line = <<>>
    THEN Continue([c EXCEPT !.state = OkState("Start")])
    ELSE Continue([c EXCEPT !.state = OkState("InRow")])

InHeaderBreakArm(c, line) ==
    Continue([c EXCEPT !.state = OkState("InRow")])

\* DepKindOf as it would be if an unknown kind fell back to Normal
DepKindOfDefaulting(value) ==
    CASE value = KDevelopment -> Some("Development")
      [] value = KBuild -> Some("Build")
      [] OTHER -> Some("Normal")

\* the match on the Kind cell
DepKindOf(value) ==
    CASE value = KNormal -> Some("Normal")
      [] value = KDevelopment -> Some("Development")
      [] value = KBuild -> Some("Build")
      [] OTHER -> None

\* whether the slice taken for column i (0-based) lies inside the line
CellInRange(line, column_indices, i) ==
    IF i = 5
    THEN SliceFromInRange(line, column_indices[i + 1])
    ELSE /\ i + 1 < Len(column_indices)
         /\ SliceInRange(line, column_indices[i + 1], column_indices[i + 2])

\* the trimmed text of column i (0-based) of a row line
CellValue(line, column_indices, i) ==
    IF i = 5
    THEN Trim(SliceFrom(line, column_indices[i + 1]))
    ELSE Trim(Slice(line, column_indices[i + 1], column_indices[i + 2]))

\* SetField as it would be if a `---` cell left the builder's field as it was
SetFieldSkipsPlaceholder(b, i, value, line) ==
    CASE i = 0 -> [b EXCEPT !.name = Some(value)]
      [] i = 1 -> [b EXCEPT !.project_version = Some(value)]
      [] i = 2 -> IF value = Dashes THEN b
                  ELSE [b EXCEPT !.latest_compatible_version = Some(value)]
      [] i = 3 -> [b EXCEPT !.latest_version =
                       Some(IF value = Removed THEN LatestRemoved ELSE LatestV(value))]
      [] i = 5 -> IF value = Dashes THEN b
                  ELSE [b EXCEPT !.platform = Some(line)]
      [] OTHER -> b

\* SetField as it would be if `Removed` were kept as a version string
SetFieldRemovedAsVersion(b, i, value, line) ==
    CASE i = 0 -> [b EXCEPT !.name = Some(value)]
      [] i = 1 -> [b EXCEPT !.project_version = Some(value)]
      [] i = 2 -> [b EXCEPT !.latest_compatible_version =
                        IF value = Dashes THEN None ELSE Some(value)]
      [] i = 3 -> [b EXCEPT !.latest_version = Some(LatestV(value))]
      [] i = 5 -> [b EXCEPT !.platform =
                        IF value = Dashes THEN None ELSE Some(line)]
      [] OTHER -> b

\* SetField as it would be if the platform were cut like the other cells
SetFieldPlatformCell(b, i, value, line) ==
    CASE i = 0 -> [b EXCEPT !.name = Some(value)]
      [] i = 1 -> [b EXCEPT !.project_version = Some(value)]
      [] i = 2 -> [b EXCEPT !.latest_compatible_version =
                        IF value = Dashes THEN None ELSE Some(value)]
      [] i = 3 -> [b EXCEPT !.latest_version =
                        Some(IF value = Removed THEN LatestRemoved ELSE LatestV(value))]
      [] i = 5 -> [b EXCEPT !.platform =
                        IF value = Dashes THEN None ELSE Some(value)]
      [] OTHER -> b

\* the builder after storing the cell of column i; column 4 is done by its caller
SetField(b, i, value, line) ==
    CASE i = 0 -> [b EXCEPT !.name = Some(value)]
      [] i = 1 -> [b EXCEPT !.project_version = Some(value)]
      [] i = 2 -> [b EXCEPT !.latest_compatible_version =
                        IF value = Dashes THEN None ELSE Some(value)]
      [] i = 3 -> [b EXCEPT !.latest_version =
                        Some(IF value = Removed THEN LatestRemoved ELSE LatestV(value))]
      [] i = 5 -> [b EXCEPT !.platform =
                        IF value = Dashes THEN None ELSE Some(line)]
      [] OTHER -> b

\* the loop over column_indices of one row, from column i on: the builder after
\* it, and the return it made, if any
RECURSIVE RowColumns(_, _, _, _)
RowColumns(line, column_indices, i, b) ==
    IF i >= Len(column_indices) THEN [b |-> b, ret |-> NotReturned]
    ELSE IF ~CellInRange(line, column_indices, i)
    THEN [b |-> b, ret |-> RetPanic("SliceOutOfRange")]
    ELSE LET value == CellValue(line, column_indices, i)
         IN  IF i = 4
             THEN IF IsSome(DepKindOf(value))
                  THEN RowColumns(line, column_indices, i + 1,
                                  [b EXCEPT !.kind = DepKindOf(value)])
                  ELSE [b |-> b, ret |-> RetErr("UnknownKind", value)]
             ELSE RowColumns(line, column_indices, i + 1,
                             SetField(b, i, value, line))

\* OutdatedDep { .. } built from the builder: the record, or the first missing field
BuildDep(b) ==
    IF ~IsSome(b.name) THEN [dep |-> None, missing |-> "name"]
    ELSE IF ~IsSome(b.kind) THEN [dep |-> None, missing |-> "kind"]
    ELSE IF ~IsSome(b.latest_version) THEN [dep |-> None, missing |-> "latest version"]
    ELSE IF ~IsSome(b.project_version) THEN [dep |-> None, missing |-> "project version"]
    ELSE [dep |-> Some([name |-> Unwrap(b.name),
                        kind |-> Unwrap(b.kind),
                        latest_version |-> Unwrap(b.latest_version),
                        project_version |-> Unwrap(b.project_version),
                        platform |-> b.platform,
                        latest_compatible_version |-> b.latest_compatible_version]),
          missing |-> ""]

InRowArm(c, line) ==
    IF line = <<>>
    THEN Continue([c EXCEPT !.state = OkState("Start")])
    ELSE LET cols == RowColumns(line, c.column_indices, 0, c.cur_outdated_dep)
             filled == [c EXCEPT !.cur_outdated_dep = cols.b]
         IN  IF cols.ret # NotReturned THEN Return(filled, cols.ret)
             ELSE LET built == BuildDep(cols.b)
                  IN  IF ~IsSome(built.dep)
                      THEN Return(filled, RetErr("MissingValue", <<built.missing>>))
                      ELSE Continue([filled EXCEPT
                               !.cur_deps = Append(@, Unwrap(built.dep)),
                               !.state = OkState("InRow")])

\* `state?` at the head of the loop body, on a state that is an Err
StateErr(c) == RetErr(c.state.v, c.state.text)

\* EndOfLoop as it would be if only a blank line after the rows committed a section
EndOfLoopAfterBlankOnly(c) ==
    IF c.state = OkState("Start") /\ IsSome(c.workspace_name)
    THEN LET pushed == Append(c.workspace_deps, <<Unwrap(c.workspace_name), c.cur_deps>>)
         IN  Return([c EXCEPT !.workspace_deps = pushed], RetOk(pushed))
    ELSE Return(c, RetOk(c.workspace_deps))

\* the statements after the loop
EndOfLoop(c) ==
    IF IsSome(c.workspace_name)
    THEN LET pushed == Append(c.workspace_deps, <<Unwrap(c.workspace_name), c.cur_deps>>)
         IN  Return([c EXCEPT !.workspace_deps = pushed], RetOk(pushed))
    ELSE Return(c, RetPanic("UnwrapNone"))

\* one loop body on an Ok state
Arm(c, line) ==
    CASE c.state.v = "Start" -> StartArm(c, line)
      [] c.state.v = "InWorkspaceBreak" -> InWorkspaceBreakArm(c, line)
      [] c.state.v = "InHeader" -> InHeaderArm(c, line)
      [] c.state.v = "InHeaderBreak" -> InHeaderBreakArm(c, line)
      [] c.state.v = "InRow" -> InRowArm(c, line)

\* the lines the loop runs over: the pieces of the input, each trimmed
LinesOf(output) ==
    LET pieces == SplitLines(output)
    IN  [i \in 1..Len(pieces) |-> Trim(pieces[i])]

\* the loop from line k on with locals c, then the statements after it
RECURSIVE RunLoop(_, _, _)
RunLoop(ls, k, c) ==
    IF k > Len(ls) THEN EndOfLoop(c).ret
    ELSE IF c.state.tag = "Err" THEN StateErr(c)
    ELSE LET out == Arm(c, ls[k])
         IN  IF out.ret # NotReturned THEN out.ret
             ELSE RunLoop(ls, k + 1, out.c)

\* OutdatedResult::try_from, as a function of the trimmed lines of its input
TryFromLines(ls) == RunLoop(ls, 1, InitLocals)

(***************************************************************************)
(* The inputs the model runs try_from on.                                  *)
(***************************************************************************)
\* a line of a table: five cells padded to the widths w, then the last cell
TableLine(w, cells) ==
    Pad(cells[1], w[1]) \o Pad(cells[2], w[2]) \o Pad(cells[3], w[3])
        \o Pad(cells[4], w[4]) \o Pad(cells[5], w[5]) \o cells[6]

\* the column widths of the two table layouts of the model
NarrowWidths == <<5, 8, 7, 8, 7>>
WideWidths == <<6, 9, 8, 9, 13>>

HeaderNarrow == TableLine(NarrowWidths, Columns)
\* as printed with an indent and a trailing space, which trim removes
HeaderWide == <<" ", " ">> \o TableLine(WideWidths, Columns) \o <<" ">>
\* six labels, the last two in the wrong order
HeaderSwapped ==
    TableLine(NarrowWidths, <<LName, LProject, LCompat, LLatest, LPlatform, LKind>>)
\* the labels one whitespace character apart, a tab among them
HeaderTight ==
    LName \o <<" ">> \o LProject \o <<"\t">> \o LCompat \o <<" ">> \o LLatest
        \o <<" ">> \o LKind \o <<" ">> \o LPlatform
Headers == {HeaderNarrow, HeaderWide}

Blank == <<>>
WhitespaceLine == <<" ", "\t">>
NameA == <<"a">>
NameB == <<" ", "b", " ">>
Names == {NameA, NameB}
Separator15 == [i \in 1..15 |-> "="]
Underline == TableLine(NarrowWidths, <<<<"-", "-", "-", "-">>, <<"-", "-">>, <<"-", "-">>,
                                       <<"-", "-">>, <<"-", "-">>, <<"-", "-">>>>)

Foo == <<"f", "o", "o">>
Bar == <<"b", "a", "r">>
V1 == <<"1">>
V2 == <<"2">>
Cfg == <<"c", "f", "g", " ", "x">>

RowOk == TableLine(NarrowWidths, <<Foo, V1, Dashes, V2, KNormal, Dashes>>)
RowRemoved == TableLine(NarrowWidths, <<Bar, V1, V2, Removed, KBuild, Dashes>>)
RowPlatform == TableLine(NarrowWidths, <<Bar, V2, Dashes, V1, KNormal, Cfg>>)
\* the Kind cell in lower case
RowBadKind ==
    TableLine(NarrowWidths, <<Foo, V1, Dashes, V2, <<"n", "o", "r", "m", "a", "l">>, Dashes>>)
\* a row that stops inside its Project cell
RowShort == Foo \o <<" ", " ">> \o V1
\* a row whose Project cell is blank
RowNoProject == TableLine(NarrowWidths, <<Foo, <<>>, Dashes, V2, KNormal, Dashes>>)
RowDevelopment == TableLine(WideWidths, <<Foo, V1, V2, V2, KDevelopment, Dashes>>)

\* a row that stops inside its Kind cell
RowCutInKind ==
    Pad(Foo, 5) \o Pad(V1, 8) \o Pad(Dashes, 7) \o Pad(V2, 8) \o <<"n", "o", "r">>

RowPool == {RowOk, RowPlatform, RowBadKind, RowShort, RowCutInKind, RowNoProject,
            RowDevelopment}

LinePool == {Blank, WhitespaceLine, NameA, NameB, Separator, Separator15,
             HeaderNarrow, HeaderTight, HeaderSwapped, Underline, RowOk}

\* the sequences over S of length lo..hi
SeqsOf(S, lo, hi) == UNION {[1..n -> S] : n \in lo..hi}

RECURSIVE Flatten(_)
Flatten(ss) == IF ss = <<>> THEN <<>> ELSE Head(ss) \o Flatten(Tail(ss))

\* inputs of arbitrary lines
ShortInputs == SeqsOf(LinePool, 1, MaxLines)

\* one section with any underline and any rows, and possibly a blank line after it
OneSectionInputs ==
    {<<NameA, Separator, h, u>> \o rows \o tail :
        h \in Headers \cup {HeaderSwapped}, u \in {Underline, Blank, RowOk},
        rows \in SeqsOf(RowPool, 0, MaxRows), tail \in {<<>>, <<Blank>>}}

\* the header and the rows of a section
Bodies ==
    {<<HeaderNarrow>>,
     <<HeaderNarrow, RowOk>>,
     <<HeaderNarrow, RowRemoved, RowPlatform, RowOk>>,
     <<HeaderNarrow, RowOk, RowBadKind>>,
     <<HeaderWide, RowDevelopment>>}
Sections == {<<n, Separator>> \o <<b[1], Underline>> \o Tail(b) : n \in Names, b \in Bodies}

\* sections with g blank lines between two of them and t whitespace lines at the end;
\* the run at the end is as long as the runs between sections, or absent
Sectioned(secs, g, t) ==
    Flatten([i \in 1..Len(secs) |->
                secs[i] \o (IF i < Len(secs) THEN [k \in 1..g |-> Blank]
                            ELSE [k \in 1..t |-> WhitespaceLine])])

SectionedInputs ==
    UNION {{Sectioned(secs, g, t) : secs \in SeqsOf(Sections, 1, MaxSections), t \in {0, g}} :
              g \in 1..MaxBlank}

\* the text of an input: its lines joined by newlines
RECURSIVE Join(_)
Join(ls) ==
    IF Len(ls) = 1 THEN ls[1] ELSE ls[1] \o <<"\n">> \o Join(Tail(ls))

Outputs == {Join(ls) : ls \in ShortInputs \cup OneSectionInputs \cup SectionedInputs}

(***************************************************************************)
(* try_from as a state machine: one step per iteration of the line loop.   *)
(***************************************************************************)
VARIABLES
    lines,              \* Vec<&str>: the trimmed lines of the input
    pos,                \* how many lines the loop has consumed
    state,              \* Result<ParseState>
    cur_deps,           \* Vec<OutdatedDep>
    workspace_deps,     \* Vec<(String, Vec<OutdatedDep>)>
    cur_outdated_dep,   \* OutdatedDepBuilder
    workspace_name,     \* Option<String>
    column_indices,     \* Vec<usize>
    returned,           \* what the call has returned, NotReturned while it runs
    trace               \* history: the ParseState each consumed line was matched in

vars == <<lines, pos, state, cur_deps, workspace_deps, cur_outdated_dep,
          workspace_name, column_indices, returned, trace>>

Locals ==
    [state |-> state, cur_deps |-> cur_deps, workspace_deps |-> workspace_deps,
     cur_outdated_dep |-> cur_outdated_dep, workspace_name |-> workspace_name,
     column_indices |-> column_indices]

SetLocals(c) ==
    /\ state' = c.state
    /\ cur_deps' = c.cur_deps
    /\ workspace_deps' = c.workspace_deps
    /\ cur_outdated_dep' = c.cur_outdated_dep
    /\ workspace_name' = c.workspace_name
    /\ column_indices' = c.column_indices

Init ==
    /\ \E output \in Outputs : lines = LinesOf(output)
    /\ pos = 0
    /\ state = InitLocals.state
    /\ cur_deps = InitLocals.cur_deps
    /\ workspace_deps = InitLocals.workspace_deps
    /\ cur_outdated_dep = InitLocals.cur_outdated_dep
    /\ workspace_name = InitLocals.workspace_name
    /\ column_indices = InitLocals.column_indices
    /\ returned = NotReturned
    /\ trace = <<>>

Running == returned = NotReturned

\* the loop takes the next line while `state` is Ok(st)
TakesLine(st) ==
    /\ Running
    /\ pos < Len(lines)
    /\ state = OkState(st)
    /\ pos' = pos + 1
    /\ trace' = Append(trace, st)
    /\ UNCHANGED lines

\* the locals and the return value after an arm
Outcome(out) ==
    /\ SetLocals(out.c)
    /\ returned' = out.ret

LineStart ==
    /\ TakesLine("Start")
    /\ Outcome(StartArm(Locals, lines[pos + 1]))

LineInWorkspaceBreak ==
    /\ TakesLine("InWorkspaceBreak")
    /\ Outcome(InWorkspaceBreakArm(Locals, lines[pos + 1]))

LineInHeader ==
    /\ TakesLine("InHeader")
    /\ Outcome(InHeaderArm(Locals, lines[pos + 1]))

LineInHeaderBreak ==
    /\ TakesLine("InHeaderBreak")
    /\ Outcome(InHeaderBreakArm(Locals, lines[pos + 1]))

LineInRow ==
    /\ TakesLine("InRow")
    /\ Outcome(InRowArm(Locals, lines[pos + 1]))

\* `state?` returns the error of the previous line when another line follows it
StateErrReturn ==
    /\ Running
    /\ pos < Len(lines)
    /\ state.tag = "Err"
    /\ returned' = StateErr(Locals)
    /\ UNCHANGED <<lines, pos, state, cur_deps, workspace_deps, cur_outdated_dep,
                   workspace_name, column_indices, trace>>

\* the lines are used up: push the pending workspace and return Ok
EndOfInput ==
    /\ Running
    /\ pos = Len(lines)
    /\ SetLocals(EndOfLoop(Locals).c)
    /\ returned' = EndOfLoop(Locals).ret
    /\ UNCHANGED <<lines, pos, trace>>

Next ==
    \/ LineStart
    \/ LineInWorkspaceBreak
    \/ LineInHeader
    \/ LineInHeaderBreak
    \/ LineInRow
    \/ StateErrReturn
    \/ EndOfInput

Spec == Init /\ [][Next]_vars

(***************************************************************************)
(* Vocabulary of the properties: what the report format says about an      *)
(* input, stated on the trimmed lines and independent of the parser.       *)
(***************************************************************************)
Done == returned # NotReturned
ReturnedOk == returned.tag = "Ok"
ReturnedErr == returned.tag = "Err" /\ returned.projects = <<>>

IsBlank(l) == l = <<>>

KindTokens == {KNormal, KDevelopment, KBuild}

\* the offset of the first occurrence of each of the six labels in a header line
LabelOffset(h, k) ==
    LET label == Columns[k]
        found == {i \in 0..(Len(h) - Len(label)) :
                    /\ h[i + 1] = label[1]
                    /\ SubSeq(h, i + 1, i + Len(label)) = label}
    IN  CHOOSE i \in found : \A j \in found : i <= j
LabelOffsets(h) == [k \in 1..6 |-> LabelOffset(h, k)]

IsHeader(l) == SplitWhitespace(l) = Columns

\* the index of the header line that governs line k: the last line before k that
\* was matched in InHeader
HeaderOf(k) ==
    CHOOSE h \in 1..(k - 1) :
        /\ trace[h] = "InHeader"
        /\ \A j \in (h + 1)..(k - 1) : trace[j] # "InHeader"

\* the lines consumed as data rows: matched in InRow and not blank
IsRowAt(k) == k \in 1..Len(trace) /\ trace[k] = "InRow" /\ ~IsBlank(lines[k])

\* the text of column i (1..6) of row line l under header line h, when the line
\* reaches the end of that column
HasCell(l, h, i) == Len(l) >= (IF i = 6 THEN LabelOffset(h, 6) ELSE LabelOffset(h, i + 1))
Cell(l, h, i) ==
    IF i = 6 THEN Trim(SubSeq(l, LabelOffset(h, 6) + 1, Len(l)))
    ELSE Trim(SubSeq(l, LabelOffset(h, i) + 1, LabelOffset(h, i + 1)))

\* the sections of an input: the maximal runs of non-blank lines, each a pair
\* <<first, last>> of line numbers, in order
SectionSpans(ls) ==
    LET starts == {i \in 1..Len(ls) : ~IsBlank(ls[i]) /\ (i = 1 \/ IsBlank(ls[i - 1]))}
        EndOf(i) == CHOOSE j \in i..Len(ls) :
                     /\ \A k \in i..j : ~IsBlank(ls[k])
                     /\ (j = Len(ls) \/ IsBlank(ls[j + 1]))
        RECURSIVE Collect(_)
        Collect(from) ==
            LET rest == {i \in starts : i >= from}
            IN  IF rest = {} THEN <<>>
                ELSE LET i == CHOOSE x \in rest : \A y \in rest : x <= y
                     IN  <<<<i, EndOf(i)>>>> \o Collect(EndOf(i) + 1)
    IN  Collect(1)

\* a data row of a well-formed section: it reaches the Platform column and its
\* Kind cell is one of the three kinds
WellFormedRow(l, h) == HasCell(l, h, 5) /\ Cell(l, h, 5) \in KindTokens

\* name line, separator, header, underline, rows
WellFormedSection(ls, span) ==
    /\ span[2] - span[1] >= 3
    /\ ls[span[1] + 1] = Separator
    /\ IsHeader(ls[span[1] + 2])
    /\ \A r \in (span[1] + 4)..span[2] : WellFormedRow(ls[r], ls[span[1] + 2])

\* the first line is not blank and no blank line follows a blank line: sections
\* are separated by single blank lines and at most one blank line ends the input
SingleBlankLines(ls) ==
    /\ ~IsBlank(ls[1])
    /\ \A i \in 2..Len(ls) : IsBlank(ls[i]) => ~IsBlank(ls[i - 1])

WellFormedInput(ls) ==
    /\ SingleBlankLines(ls)
    /\ \A k \in 1..Len(SectionSpans(ls)) : WellFormedSection(ls, SectionSpans(ls)[k])

\* the number of data rows of a well-formed section
RowCount(span) == span[2] - span[1] - 3

(***************************************************************************)
(* C1.  Missing separator rejection: whenever a line was consumed in Start *)
(* and the line after it is not the 16-character separator, the call ends  *)
(* in an error and hands back no result, wherever the line stands, the     *)
(* last line of the input included.  (Stated for name lines that are not   *)
(* blank, so that a violation owes nothing to blank name lines.)           *)
(* The code does not do this: the error of the last line is stored in      *)
(* `state` and never looked at, so the call returns Ok.                    *)
(***************************************************************************)
C1_MissingSeparatorRejected ==
    Done =>
        \A k \in 1..Len(trace) :
            (/\ trace[k] = "Start"
             /\ ~IsBlank(lines[k])
             /\ k < Len(lines)
             /\ lines[k + 1] # Separator) => ReturnedErr

(***************************************************************************)
(* C2.  Multi-section independence and row count: on an input of two or    *)
(* more well-formed sections separated by single blank lines, the k-th     *)
(* entry of the result holds exactly the records of the rows of the k-th   *)
(* section, in row order: as many records as the section has rows, the     *)
(* r-th one named by the Name cell of the r-th row.                        *)
(* The code does not do this: cur_deps is never cleared, so an entry also  *)
(* holds the records of every section before it.                           *)
(***************************************************************************)
C2_SectionsIndependent ==
    (Done /\ ReturnedOk /\ WellFormedInput(lines) /\ Len(SectionSpans(lines)) >= 2) =>
        \A k \in 1..Len(SectionSpans(lines)) :
            LET span == SectionSpans(lines)[k]
                deps == returned.projects[k][2]
            IN  /\ k <= Len(returned.projects)
                /\ Len(deps) = RowCount(span)
                /\ \A r \in 1..RowCount(span) :
                       deps[r].name = Cell(lines[span[1] + 3 + r], lines[span[1] + 2], 1)

(***************************************************************************)
(* C3.  Section count and order: on an input of N >= 1 well-formed         *)
(* sections, consecutive ones separated by a single blank line, ending     *)
(* after the last row or after one blank line, the call returns Ok with    *)
(* exactly N entries, the k-th named by the name line of the k-th section; *)
(* equal names give separate entries.                                      *)
(***************************************************************************)
C3_SectionCountAndOrder ==
    (Done /\ WellFormedInput(lines)) =>
        /\ ReturnedOk
        /\ Len(returned.projects) = Len(SectionSpans(lines))
        /\ \A k \in 1..Len(SectionSpans(lines)) :
               returned.projects[k][1] = lines[SectionSpans(lines)[k][1]]

\* C3 witness: a well-formed input of two sections with the same name, followed
\* by a blank line, has been parsed to its end
C3_Witness ==
    /\ Done
    /\ WellFormedInput(lines)
    /\ Len(SectionSpans(lines)) = 2
    /\ lines[SectionSpans(lines)[1][1]] = lines[SectionSpans(lines)[2][1]]
    /\ RowCount(SectionSpans(lines)[2]) >= 1
    /\ IsBlank(lines[Len(lines)])
    /\ Len(returned.projects) = 2

\* the lines with every blank line that follows a blank line removed
RECURSIVE CollapseBlankRuns(_)
CollapseBlankRuns(ls) ==
    IF Len(ls) <= 1 THEN ls
    ELSE LET front == CollapseBlankRuns(SubSeq(ls, 1, Len(ls) - 1))
         IN  IF IsBlank(ls[Len(ls)]) /\ IsBlank(ls[Len(ls) - 1])
             THEN front
             ELSE Append(front, ls[Len(ls)])

(***************************************************************************)
(* C4.  Blank-line runs are one section boundary: only a non-blank line is *)
(* ever recorded as a workspace name, and an input parses to the same      *)
(* result as the input with every run of blank lines cut down to one       *)
(* blank line.                                                             *)
(* The code does not do this: in Start every line, blank or not, becomes   *)
(* the workspace name.                                                     *)
(***************************************************************************)
C4_BlankRunsAreOneBoundary ==
    /\ IsSome(workspace_name) => ~IsBlank(Unwrap(workspace_name))
    /\ Done => returned = TryFromLines(CollapseBlankRuns(lines))

(***************************************************************************)
(* C5.  Header shape rejection: whenever the line consumed in InHeader     *)
(* does not split into exactly Name Project Compat Latest Kind Platform,   *)
(* the call ends in an error and hands back no result, wherever the line   *)
(* stands, the last line of the input included.                            *)
(* The code does not do this: the error of the last line is stored in      *)
(* `state` and never looked at, so the call returns Ok.                    *)
(***************************************************************************)
C5_HeaderShapeRejected ==
    Done =>
        \A k \in 1..Len(trace) :
            (trace[k] = "InHeader" /\ ~IsHeader(lines[k])) => ReturnedErr

(***************************************************************************)
(* C6.  Missing workspace name: an input of blank lines only, the empty    *)
(* string included, ends in a failure, never in a successful result.       *)
(* The code does not do this: the first line, blank as it is, is recorded  *)
(* as the workspace name and the call returns Ok with one entry.           *)
(***************************************************************************)
C6_EmptyInputFails ==
    (Done /\ \A i \in 1..Len(lines) : IsBlank(lines[i])) => ~ReturnedOk

(***************************************************************************)
(* C7.  Unknown kind rejection: whenever a data row, at any position, has  *)
(* a Kind cell (the text between the Kind and Platform offsets, trimmed)   *)
(* that is none of Normal, Development, Build, the call returns an error   *)
(* at that row and hands back no result.  The Kind cell is the slice the   *)
(* claim names: it exists for the rows that reach the Platform offset.     *)
(***************************************************************************)
C7_UnknownKindRejected ==
    \A k \in 1..Len(trace) :
        (/\ IsRowAt(k)
         /\ HasCell(lines[k], lines[HeaderOf(k)], 5)
         /\ Cell(lines[k], lines[HeaderOf(k)], 5) \notin KindTokens)
            => /\ pos = k
               /\ returned = RetErr("UnknownKind", Cell(lines[k], lines[HeaderOf(k)], 5))

\* C7 witness: the last line of the input is a row with an unknown kind, rows
\* before it were parsed, and the call has returned
C7_Witness ==
    /\ Done
    /\ pos = Len(lines)
    /\ IsRowAt(pos)
    /\ HasCell(lines[pos], lines[HeaderOf(pos)], 5)
    /\ Cell(lines[pos], lines[HeaderOf(pos)], 5) \notin KindTokens
    /\ cur_deps # <<>>

(***************************************************************************)
(* C8.  Record invariant: every dependency record has a non-empty name and *)
(* a non-empty project_version.                                            *)
(* The code does not do this: a blank Project cell is stored as the empty  *)
(* string and the record is built.                                         *)
(***************************************************************************)
C8_RecordsNonEmpty ==
    /\ \A r \in 1..Len(cur_deps) :
           cur_deps[r].name # <<>> /\ cur_deps[r].project_version # <<>>
    /\ \A k \in 1..Len(returned.projects) :
           \A r \in 1..Len(returned.projects[k][2]) :
               /\ returned.projects[k][2][r].name # <<>>
               /\ returned.projects[k][2][r].project_version # <<>>

(***************************************************************************)
(* C9.  Short row handling: a data row too short for one of its cells to   *)
(* be cut out makes the call return the missing-value failure; on no input *)
(* does the call abort by slicing outside the row line.                    *)
(* The code does not do this: the slice panics.                            *)
(***************************************************************************)
C9_ShortRowFails ==
    /\ returned.tag # "Panic"
    /\ \A k \in 1..Len(trace) :
           (IsRowAt(k) /\ ~HasCell(lines[k], lines[HeaderOf(k)], 6))
               => (returned.tag = "Err" /\ returned.kind = "MissingValue")

(***************************************************************************)
(* C10.  End-of-input commit: whenever the call returns a result, the      *)
(* pending workspace name and the row accumulator are its last entry, one  *)
(* entry per line consumed in Start, whatever ParseState the loop ended    *)
(* in; and an input that ends right after a data row gives the result of   *)
(* the same input followed by one newline.                                 *)
(***************************************************************************)
C10_EndOfInputCommit ==
    (Done /\ ReturnedOk) =>
        /\ pos = Len(lines)
        /\ Len(returned.projects) = Cardinality({k \in 1..Len(trace) : trace[k] = "Start"})
        /\ returned.projects[Len(returned.projects)] = <<Unwrap(workspace_name), cur_deps>>
        /\ IsRowAt(Len(lines)) => TryFromLines(Append(lines, <<>>)) = returned

\* C10 witness: a result was returned for an input of two sections that ends
\* right after a data row
C10_Witness ==
    /\ Done
    /\ ReturnedOk
    /\ IsRowAt(Len(lines))
    /\ Len(returned.projects) = 2
    /\ cur_deps # <<>>

(***************************************************************************)
(* Rows and the records made from them.  cur_deps is never cleared, so the *)
(* record of a row is found by counting the rows consumed so far.          *)
(***************************************************************************)
\* how many data rows were consumed among the lines 1..k
RowsUpTo(k) == Cardinality({j \in 1..k : IsRowAt(j)})

\* line k is a data row and a record was appended for it
Extracted(k) == IsRowAt(k) /\ RowsUpTo(k) <= Len(cur_deps)

\* the record appended for the extracted row k
RecordOf(k) == cur_deps[RowsUpTo(k)]

(***************************************************************************)
(* C11.  Placeholder mapping: for every extracted row, a Compat cell `---` *)
(* gives latest_compatible_version None and any other cell Some(cell); a   *)
(* Latest cell `Removed` gives the Removed variant and any other cell the  *)
(* version holding the cell; a Platform cell `---` gives platform None.    *)
(***************************************************************************)
C11_PlaceholderMapping ==
    \A k \in 1..Len(trace) :
        Extracted(k) =>
            LET l == lines[k]
                h == lines[HeaderOf(k)]
                rec == RecordOf(k)
            IN  /\ rec.latest_compatible_version =
                       (IF Cell(l, h, 3) = Dashes THEN None ELSE Some(Cell(l, h, 3)))
                /\ rec.latest_version =
                       (IF Cell(l, h, 4) = Removed THEN LatestRemoved
                        ELSE LatestV(Cell(l, h, 4)))
                /\ Cell(l, h, 6) = Dashes => rec.platform = None

\* C11 witness: a record was appended for a row whose Latest cell is `Removed`,
\* whose Compat cell is a version and whose Platform cell is `---`
C11_Witness ==
    \E k \in 1..Len(trace) :
        /\ Extracted(k)
        /\ Cell(lines[k], lines[HeaderOf(k)], 4) = Removed
        /\ Cell(lines[k], lines[HeaderOf(k)], 3) = V2
        /\ Cell(lines[k], lines[HeaderOf(k)], 6) = Dashes

(***************************************************************************)
(* C12.  Platform whole-line capture: for every extracted row whose        *)
(* Platform cell (the text from the Platform offset to the end of the      *)
(* line, trimmed) is not `---`, the platform field holds the entire row    *)
(* line, not the cell.                                                     *)
(***************************************************************************)
C12_PlatformWholeLine ==
    \A k \in 1..Len(trace) :
        (Extracted(k) /\ Cell(lines[k], lines[HeaderOf(k)], 6) # Dashes)
            => RecordOf(k).platform = Some(lines[k])

\* C12 witness: a record was appended for a row whose Platform cell is `cfg x`
C12_Witness ==
    \E k \in 1..Len(trace) :
        /\ Extracted(k)
        /\ Cell(lines[k], lines[HeaderOf(k)], 6) = Cfg
        /\ lines[k] # Cfg

(***************************************************************************)
(* C13.  Transition order: the parse state moves only along the edges      *)
(* Start->InWorkspaceBreak, InWorkspaceBreak->InHeader,                    *)
(* InHeader->InHeaderBreak, InHeaderBreak->InRow, InRow->InRow and         *)
(* InRow->Start, or into an error after which no line is consumed; one     *)
(* line is consumed per transition; and a data row is consumed only after  *)
(* a name line, the exact separator, a valid header and one underline      *)
(* line of its own section, in this order.                                 *)
(***************************************************************************)
Edges ==
    {<<"Start", "InWorkspaceBreak">>, <<"InWorkspaceBreak", "InHeader">>,
     <<"InHeader", "InHeaderBreak">>, <<"InHeaderBreak", "InRow">>,
     <<"InRow", "InRow">>, <<"InRow", "Start">>}

C13_TransitionOrder ==
    /\ Len(trace) = pos
    /\ pos = 0 => state = OkState("Start")
    /\ \A k \in 1..(Len(trace) - 1) : <<trace[k], trace[k + 1]>> \in Edges
    /\ (pos >= 1 /\ state.tag = "Ok") => <<trace[pos], state.v>> \in Edges
    /\ state.tag = "Err" =>
           /\ trace[pos] \in {"InWorkspaceBreak", "InHeader"}
           /\ state.text = lines[pos]
    /\ \A k \in 1..Len(trace) :
           IsRowAt(k) =>
               \E n \in 1..(k - 4) :
                   /\ <<trace[n], trace[n + 1], trace[n + 2], trace[n + 3]>> =
                          <<"Start", "InWorkspaceBreak", "InHeader", "InHeaderBreak">>
                   /\ \A j \in (n + 4)..k : trace[j] = "InRow"
                   /\ lines[n + 1] = Separator
                   /\ IsHeader(lines[n + 2])

\* C13 witness: a data row of a second section was consumed, after the loop went
\* from InRow back to Start
C13_Witness ==
    \E k \in 1..Len(trace) :
        /\ Extracted(k)
        /\ \E j \in 1..(k - 1) : trace[j] = "InRow" /\ trace[j + 1] = "Start"

(***************************************************************************)
(* C14.  Per-section column offsets: whenever a data row is consumed,      *)
(* column_indices holds exactly six offsets, the offsets of the six labels *)
(* in the header line of the row's own section; nothing of an earlier      *)
(* section's offsets is kept.                                              *)
(***************************************************************************)
C14_PerSectionOffsets ==
    (pos >= 1 /\ IsRowAt(pos)) =>
        /\ Len(column_indices) = 6
        /\ \A i \in 1..6 : column_indices[i] = LabelOffsets(lines[HeaderOf(pos)])[i]

\* C14 witness: a row was extracted in a second section whose header has other
\* column widths than the header of the first section
C14_Witness ==
    /\ pos >= 1
    /\ Extracted(pos)
    /\ \E h \in 1..(HeaderOf(pos) - 1) :
           /\ trace[h] = "InHeader"
           /\ IsHeader(lines[h])
           /\ LabelOffsets(lines[h])[6] # LabelOffsets(lines[HeaderOf(pos)])[6]

(***************************************************************************)
(* C15.  Unvalidated underline: while the state is InHeaderBreak and a     *)
(* line is left, the next step consumes that line whatever it holds; the   *)
(* step appends no record, returns nothing, leaves the row accumulator and *)
(* the result unchanged, and the next state is InRow.                      *)
(***************************************************************************)
C15_UnvalidatedUnderline ==
    [][(Running /\ state = OkState("InHeaderBreak") /\ pos < Len(lines)) =>
           /\ pos' = pos + 1
           /\ state' = OkState("InRow")
           /\ returned' = NotReturned
           /\ cur_deps' = cur_deps
           /\ workspace_deps' = workspace_deps]_vars

\* C15 witness: a line shaped like a data row stood in place of the underline
\* and was consumed without a record
C15_Witness ==
    /\ Running
    /\ pos >= 1
    /\ trace[pos] = "InHeaderBreak"
    /\ lines[pos] = RowOk
    /\ state = OkState("InRow")
    /\ cur_deps = <<>>

(***************************************************************************)
(* C16.  Offsets are well ordered: whenever a header line passes the       *)
(* six-token check, each of the six labels is found in it, the first       *)
(* offset is 0 and the six offsets are strictly increasing; the            *)
(* missing-label failure is never returned, and whenever column_indices    *)
(* is not empty the start of each cell slice is below its end.             *)
(***************************************************************************)
C16_OffsetsWellOrdered ==
    /\ returned.kind # "ExpectedIndex"
    /\ (pos >= 1 /\ trace[pos] = "InHeader" /\ IsHeader(lines[pos])) =>
           /\ Len(column_indices) = 6
           /\ \A i \in 1..6 :
                  SubSeq(lines[pos], column_indices[i] + 1,
                         column_indices[i] + Len(Columns[i])) = Columns[i]
    /\ column_indices # <<>> =>
           /\ Len(column_indices) = 6
           /\ column_indices[1] = 0
           /\ \A i \in 1..5 : column_indices[i] < column_indices[i + 1]
    /\ (pos >= 1 /\ trace[pos] = "InRow" /\ lines[pos] # <<>>) =>
           \A i \in 0..5 :
               (\A j \in 0..(i - 1) : CellInRange(lines[pos], column_indices, j)) =>
                   column_indices[i + 1] <= (IF i = 5 THEN Len(lines[pos])
                                                     ELSE column_indices[i + 2])

\* C16 witness: a header with a tab between two labels passed the six-token check
C16_Witness ==
    /\ pos >= 1
    /\ trace[pos] = "InHeader"
    /\ lines[pos] = HeaderTight
    /\ state = OkState("InHeaderBreak")

(***************************************************************************)
(* C17.  End-of-input unwrap is safe: the split always yields at least one *)
(* line, the first line is consumed in state Start and records a workspace *)
(* name, so whenever the loop finishes without an early return a name is   *)
(* recorded; the unwrap at end of input never fails and every successful   *)
(* result has at least one entry.                                          *)
(***************************************************************************)
C17_EndOfInputUnwrapSafe ==
    /\ Len(lines) >= 1
    /\ pos >= 1 => (trace[1] = "Start" /\ IsSome(workspace_name))
    /\ (Running /\ pos = Len(lines)) => IsSome(workspace_name)
    /\ returned # RetPanic("UnwrapNone")
    /\ ReturnedOk => Len(returned.projects) >= 1

\* C17 witness: a one-line input ran to the end and returned its one entry
C17_Witness ==
    /\ Len(lines) = 1
    /\ pos = 1
    /\ ReturnedOk
    /\ returned.projects = <<<<lines[1], <<>>>>>>

\* the record that a row line l under header line h gives by itself
RecordFromRow(l, h) ==
    [name |-> Cell(l, h, 1),
     kind |-> IF Cell(l, h, 5) = KNormal THEN "Normal"
              ELSE IF Cell(l, h, 5) = KDevelopment THEN "Development"
              ELSE "Build",
     latest_version |-> IF Cell(l, h, 4) = Removed THEN LatestRemoved
                        ELSE LatestV(Cell(l, h, 4)),
     project_version |-> Cell(l, h, 2),
     platform |-> IF Cell(l, h, 6) = Dashes THEN None ELSE Some(l),
     latest_compatible_version |-> IF Cell(l, h, 3) = Dashes THEN None
                                   ELSE Some(Cell(l, h, 3))]

(***************************************************************************)
(* C18.  No stale builder fields: every record appended to cur_deps takes  *)
(* all six of its fields from the row line it was appended for, none from  *)
(* an earlier row, although the builder is never reset; and none of the    *)
(* four `missing value` failures is ever returned.                         *)
(***************************************************************************)
C18_NoStaleBuilderFields ==
    /\ returned.kind # "MissingValue"
    /\ \A k \in 1..Len(trace) :
           Extracted(k) =>
               /\ Cell(lines[k], lines[HeaderOf(k)], 5) \in {KNormal, KDevelopment, KBuild}
               /\ RecordOf(k) = RecordFromRow(lines[k], lines[HeaderOf(k)])

\* C18 witness: three records in a row, the second without the Compat value the
\* first has, the third without the Platform value the second has
C18_Witness ==
    \E k \in 1..Len(trace) :
        /\ Extracted(k)
        /\ RowsUpTo(k) >= 3
        /\ cur_deps[RowsUpTo(k) - 2].latest_compatible_version # None
        /\ cur_deps[RowsUpTo(k) - 1].latest_compatible_version = None
        /\ cur_deps[RowsUpTo(k) - 1].platform # None
        /\ RecordOf(k).platform = None

====
